---- MODULE Spec2Model ----
(***************************************************************************)
(* Model of runpod-handler.py: the serverless handler that validates a     *)
(* text-to-image request, drives the ComfyUI engine, resolves the output   *)
(* files of the job and reports status to a webhook.                       *)
(*                                                                         *)
(* Python values are records tagged by their type (field t), so that       *)
(* truthiness, dict.get defaults and type errors are computed as Python    *)
(* computes them.  Python strings that are inspected (job ids, prompts,    *)
(* file names) are tuples of characters / name tokens.                     *)
(***************************************************************************)
EXTENDS Integers, Sequences, FiniteSets, TLC

VARIABLES inv, outdir

vars == <<inv, outdir>>

(* ------------------------------ bounds --------------------------------- *)

\* Largest modification time of a file left in the output directory by
\* earlier use; files written by an engine run are newer.
MaxOld == 1

\* Largest number of files one engine run writes.
MaxWrite == 2

(* --------------------------- Python values ----------------------------- *)

JAbsent == [t |-> "absent"]
JNone == [t |-> "none"]
JInt(n) == [t |-> "int", v |-> n]
JStr(s) == [t |-> "str", v |-> s]
JList(n) == [t |-> "list", n |-> n]
JDict(n) == [t |-> "dict", n |-> n]

\* bool(v) of Python: None, 0, "", [] and {} are false.  A dict with named
\* fields (input, params, output) is given its fields and counts as non-empty
\* exactly when it holds a key.
Truthy(v) ==
  CASE v.t = "none" -> FALSE
    [] v.t = "absent" -> FALSE
    [] v.t = "int" -> v.v # 0
    [] v.t = "str" -> v.v # <<>>
    [] v.t = "list" -> v.n > 0
    [] v.t = "dict" -> v.n > 0
    [] OTHER -> TRUE

\* d.get(key, default): the default only when the key is not in the dict.
Get(d, key, default) == IF d[key].t = "absent" THEN default ELSE d[key]

\* Python's name of the type of a value, as it appears in error messages.
TypeName(v) ==
  CASE v.t = "none" -> "NoneType"
    [] v.t = "int" -> "int"
    [] v.t = "str" -> "str"
    [] v.t = "list" -> "list"
    [] OTHER -> "dict"

NoExc == [type |-> "none", msg |-> ""]
Exc(type, msg) == [type |-> type, msg |-> msg]
Raised(e) == e.type # "none"

\* seq[:n] of Python for an integer n.
Slice(seq, n) ==
  IF n >= 0
  THEN SubSeq(seq, 1, IF n < Len(seq) THEN n ELSE Len(seq))
  ELSE SubSeq(seq, 1, IF Len(seq) + n > 0 THEN Len(seq) + n ELSE 0)

(* ------------------------- module constants ---------------------------- *)

\* required_models of validate_models, in the dict's insertion order.
RequiredModels == <<"checkpoint", "vae", "clip1", "clip2">>

ModelTypes == {RequiredModels[i] : i \in 1..Len(RequiredModels)}

(* ------------------------ the output directory ------------------------- *)

\* File names as token sequences; the last token is the extension.
NameTaggedA == <<"runpod_generation", "a", ".png">>
NameTaggedAB == <<"runpod_generation", "a", "b", ".png">>
NamePlain == <<"a", ".png">>
NameJpg == <<"runpod_generation", "a", ".jpg">>

FileNames == {NameTaggedA, NameTaggedAB, NamePlain, NameJpg}

NoFile == [mtime |-> 0, writer |-> 0]

Exists(dir, n) == dir[n].mtime > 0

Listing(dir) == {n \in FileNames : Exists(dir, n)}

\* Every order in which the directory can be enumerated.
Orders(S) == {o \in [1..Cardinality(S) -> S] : \A n \in S : \E i \in DOMAIN o : o[i] = n}

\* The directories earlier use can have left behind: the handler never
\* deletes a file.  writer 0 is an earlier job.
InitDirs ==
  {[n \in FileNames |-> [mtime |-> m[n], writer |-> 0]] : m \in [FileNames -> 0..MaxOld]}

(* ------------------------------ requests ------------------------------- *)

\* str(uuid.uuid4()): an identifier no file name holds.
Uuid == JStr(<<"u">>)

Prompts == {JAbsent, JStr(<<>>), JStr(<<"p">>), JInt(5)}

BatchSizes == {JAbsent, JInt(-1), JInt(0), JInt(2), JStr(<<"2">>)}

Keys(fields) == Cardinality({i \in DOMAIN fields : fields[i].t # "absent"})

ParamsDict(p, b) ==
  [t |-> "dict", n |-> Keys(<<p, b>>), prompt |-> p, batch_size |-> b]

\* params: missing, null, a string, or an object.
ParamsValues ==
  {JAbsent, JNone, JStr(<<"x">>)} \cup {ParamsDict(p, b) : p \in Prompts, b \in BatchSizes}

Workflows == {JAbsent, JDict(0), JDict(1)}

JobIds == {JAbsent, JStr(<<"a">>), JStr(<<"a", "b">>)}

Urls == {JAbsent, JStr(<<>>), JStr(<<"http">>)}

InputDict(j, w, p, u) ==
  [t |-> "dict", n |-> Keys(<<j, w, p, u>>), job_id |-> j, user_id |-> JAbsent,
   workflow |-> w, params |-> p, webhook_url |-> u]

\* event["input"]: missing, null, a list, or an object.
InputValues ==
  {JAbsent, JNone, JList(1)}
    \cup {InputDict(j, w, p, u) : j \in JobIds, w \in Workflows, p \in ParamsValues, u \in Urls}

\* The event: an object, or (outside the platform's contract) None.
Events == {JNone} \cup {[t |-> "dict", n |-> Keys(<<i>>), input |-> i] : i \in InputValues}

\* The {} defaults of event.get('input', {}) and input_data.get('params', {}).
EmptyInput == InputDict(JAbsent, JAbsent, JAbsent, JAbsent)
EmptyParams == ParamsDict(JAbsent, JAbsent)

\* What webhook deliveries can do: requests.post returns, raises, or times out.
Deliveries == {"ok", "error", "timeout"}

\* Messages str(e) of the exceptions the engine raises.
EngineErrors == {"CUDA out of memory", ""}

(* --------------------------- one invocation ---------------------------- *)

\* The locals of handler, the notifications it attempted, and its return
\* value.  calls: the statuses passed to send_webhook; posts: the payloads
\* handed to requests.post.  stages, failed, fallback, missing_models and
\* checked record what ran (print output and control flow); exists, listing,
\* seen and unreadable record what the file system answered, engine and
\* written what the engine of this invocation raised and wrote.
IdleRun ==
  [pc |-> "idle", event |-> JAbsent, job_id |-> JAbsent, workflow |-> JAbsent,
   params |-> JAbsent, webhook_url |-> JAbsent, calls |-> <<>>, posts |-> <<>>,
   stages |-> <<>>, failed |-> "", missing_models |-> <<>>, checked |-> {},
   exists |-> {}, listing |-> <<>>, image_files |-> <<>>, fallback |-> FALSE, written |-> {}, result |-> JAbsent,
   escaped |-> NoExc, engine |-> NoExc, seen |-> [n \in FileNames |-> NoFile],
   unreadable |-> {}]

ErrorResult(msg) == [t |-> "dict", n |-> 1, error |-> msg]

Return(r, result) == [r EXCEPT !.pc = "done", !.result = result]

Stage(r, name) == [r EXCEPT !.stages = Append(@, name)]

Failed(r, name) == [r EXCEPT !.failed = name]

\* Mutant of send_webhook: the test "if not webhook_url" is missing.
send_webhook_NoUrlCheck(r, status, output, error, d) ==
  LET payload == [job_id |-> r.job_id, status |-> status,
                  output |-> IF Truthy(output) THEN output ELSE JAbsent,
                  error |-> IF Truthy(error) THEN error ELSE JAbsent,
                  delivered |-> (d = "ok")]
  IN [run |-> [r EXCEPT !.calls = Append(@, status), !.posts = Append(@, payload)],
      exc |-> NoExc]

\* Mutant of send_webhook: output and error are put into the payload without
\* the tests "if output" and "if error".
send_webhook_AlwaysBoth(r, status, output, error, d) ==
  IF ~Truthy(r.webhook_url)
  THEN [run |-> [r EXCEPT !.calls = Append(@, status)], exc |-> NoExc]
  ELSE LET payload == [job_id |-> r.job_id, status |-> status,
                       output |-> output, error |-> error, delivered |-> (d = "ok")]
       IN [run |-> [r EXCEPT !.calls = Append(@, status), !.posts = Append(@, payload)],
           exc |-> NoExc]

\* Mutant of send_webhook: the exception of a failed delivery is not caught.
send_webhook_Propagates(r, status, output, error, d) ==
  IF ~Truthy(r.webhook_url)
  THEN [run |-> [r EXCEPT !.calls = Append(@, status)], exc |-> NoExc]
  ELSE LET payload == [job_id |-> r.job_id, status |-> status,
                       output |-> IF Truthy(output) THEN output ELSE JAbsent,
                       error |-> IF Truthy(error) THEN error ELSE JAbsent,
                       delivered |-> (d = "ok")]
       IN [run |-> [r EXCEPT !.calls = Append(@, status), !.posts = Append(@, payload)],
           exc |-> IF d = "ok" THEN NoExc ELSE Exc("RequestException", d)]

\* send_webhook: nothing without a URL; otherwise one POST of the payload,
\* whose failure is caught and printed.  Returns the invocation and the
\* exception that leaves send_webhook (none).
send_webhook(r, status, output, error, d) ==
  IF ~Truthy(r.webhook_url)
  THEN [run |-> [r EXCEPT !.calls = Append(@, status)], exc |-> NoExc]
  ELSE LET payload == [job_id |-> r.job_id, status |-> status,
                       output |-> IF Truthy(output) THEN output ELSE JAbsent,
                       error |-> IF Truthy(error) THEN error ELSE JAbsent,
                       delivered |-> (d = "ok")]
       IN [run |-> [r EXCEPT !.calls = Append(@, status), !.posts = Append(@, payload)],
           exc |-> NoExc]

\* Mutant of OuterCatch: the exception is raised again to the platform.
OuterCatch_Reraise(r, e) == [r EXCEPT !.pc = "done", !.escaped = e]

\* except Exception as e (line 262): the error is returned, nothing is sent.
OuterCatch(r, e) == Return(r, ErrorResult(<<"Handler error: ", e.msg>>))

\* send_webhook(webhook_url, 'FAILED', job_id, error=error_msg) followed by
\* return {"error": error_msg}, in the outer try block.
FailOuter(r, msg, d) ==
  LET s == send_webhook(r, "FAILED", JNone, JStr(msg), d)
  IN IF Raised(s.exc) THEN OuterCatch(s.run, s.exc) ELSE Return(s.run, ErrorResult(msg))

\* except Exception as workflow_error (line 256).
InnerCatch(r, e, d) == FailOuter(r, <<"Workflow execution failed: ", e.msg>>, d)

\* The same two statements in the inner try block (lines 251-254).
FailInner(r, msg, d) ==
  LET s == send_webhook(r, "FAILED", JNone, JStr(msg), d)
  IN IF Raised(s.exc) THEN InnerCatch(s.run, s.exc, d) ELSE Return(s.run, ErrorResult(msg))

\* Lines 163-171: the locals read from the event.
ExtractInput(r, ev) ==
  LET input_data == Get(ev, "input", EmptyInput)
  IN IF ev.t # "dict"
     THEN [run |-> [r EXCEPT !.event = ev], exc |-> Exc("AttributeError", TypeName(ev))]
     ELSE IF input_data.t # "dict"
     THEN [run |-> [r EXCEPT !.event = ev],
           exc |-> Exc("AttributeError", TypeName(input_data))]
     ELSE [run |-> [r EXCEPT !.event = ev,
                             !.job_id = Get(input_data, "job_id", Uuid),
                             !.workflow = Get(input_data, "workflow", JDict(0)),
                             !.params = Get(input_data, "params", EmptyParams),
                             !.webhook_url = Get(input_data, "webhook_url", JNone)],
           exc |-> NoExc]

\* Lines 175-186: the two checks of the input; params.get raises on a value
\* that is no dict.
ValidateInput(r, d) ==
  LET v == Stage(r, "validate")
  IN IF ~Truthy(v.workflow)
     THEN FailOuter(Failed(v, "validate"), <<"Missing workflow in input">>, d)
     ELSE IF v.params.t # "dict"
     THEN OuterCatch(Failed(v, "validate"), Exc("AttributeError", TypeName(v.params)))
     ELSE IF ~Truthy(Get(v.params, "prompt", JNone))
     THEN FailOuter(Failed(v, "validate"), <<"Missing prompt in params">>, d)
     ELSE [v EXCEPT !.pc = "notify"]

\* Lines 188-189.
SendInProgress(r, d) ==
  LET s == send_webhook(Stage(r, "notify"), "IN_PROGRESS", JNone, JNone, d)
  IN IF Raised(s.exc) THEN OuterCatch(s.run, s.exc) ELSE [s.run EXCEPT !.pc = "setup"]

\* Mutant of HandlerStart: the initial webhook is sent before the input is
\* validated.
HandlerStart_NotifyFirst(r, ev, d) ==
  LET x == ExtractInput(r, ev)
  IN IF Raised(x.exc) THEN OuterCatch(Failed(x.run, "input"), x.exc)
     ELSE LET s == send_webhook(x.run, "IN_PROGRESS", JNone, JNone, d).run
              v == ValidateInput(s, d)
          IN IF v.pc = "notify" THEN [v EXCEPT !.pc = "setup"] ELSE v

\* Lines 161-189: handler up to the initial webhook.
HandlerStart(r, ev, d) ==
  LET x == ExtractInput(r, ev)
  IN IF Raised(x.exc) THEN OuterCatch(Failed(x.run, "input"), x.exc)
     ELSE LET v == ValidateInput(x.run, d)
          IN IF v.pc = "notify" THEN SendInProgress(v, d) ELSE v

\* setup_comfyui (lines 39-55): every exception of the imports is caught and
\* turned into False.
setup_comfyui(imports_ok) == imports_ok

\* Mutant of InitComfyUI: the failure is notified but the return is missing.
InitComfyUI_NoReturn(r, imports_ok, d) ==
  LET v == Stage(r, "setup")
  IN IF ~setup_comfyui(imports_ok)
     THEN [FailOuter(Failed(v, "setup"), <<"Failed to initialize ComfyUI">>, d)
             EXCEPT !.pc = "models", !.result = JAbsent]
     ELSE [v EXCEPT !.pc = "models"]

\* Lines 191-195.
InitComfyUI(r, imports_ok, d) ==
  LET v == Stage(r, "setup")
  IN IF ~setup_comfyui(imports_ok)
     THEN FailOuter(Failed(v, "setup"), <<"Failed to initialize ComfyUI">>, d)
     ELSE [v EXCEPT !.pc = "models"]

\* Mutant of validate_models: the last required model is not checked.
validate_models_SkipLast(exists) ==
  LET required == SubSeq(RequiredModels, 1, Len(RequiredModels) - 1)
      missing_models == SelectSeq(required, LAMBDA m : m \notin exists)
  IN [ok |-> missing_models = <<>>, missing_models |-> missing_models,
      checked |-> {required[i] : i \in DOMAIN required}]

\* validate_models (lines 57-79): every required path is tested, the missing
\* ones are collected in order and printed; the value returned is a bool.
validate_models(exists) ==
  LET missing_models == SelectSeq(RequiredModels, LAMBDA m : m \notin exists)
  IN [ok |-> missing_models = <<>>, missing_models |-> missing_models,
      checked |-> ModelTypes]

\* Lines 197-203: the model check, then the print of params['prompt'][:100],
\* which raises TypeError on a prompt that cannot be sliced.
CheckModels(r, exists, d) ==
  LET vm == validate_models(exists)
      v == [Stage(r, "models") EXCEPT !.missing_models = vm.missing_models,
                                      !.checked = vm.checked, !.exists = exists]
  IN IF ~vm.ok
     THEN FailOuter(Failed(v, "models"), <<"Required models not found in network volume">>, d)
     ELSE IF v.params.prompt.t = "int"
     THEN OuterCatch(Failed(v, "print"), Exc("TypeError", "int"))
     ELSE [v EXCEPT !.pc = "execute"]

\* The modification time of a file written now.
Now(dir) ==
  LET newest == CHOOSE m \in 0..(MaxOld + Cardinality(FileNames)) :
                  /\ \A n \in FileNames : dir[n].mtime <= m
                  /\ \E n \in FileNames : dir[n].mtime = m \/ m = 0
  IN (IF newest > MaxOld THEN newest ELSE MaxOld) + 1

\* What one engine run can do: write up to MaxWrite files and return, or
\* raise an exception (after writing some files or none).
EngineOutcomes ==
  {[exc |-> e, writes |-> W] :
     e \in {NoExc} \cup {Exc("RuntimeError", m) : m \in EngineErrors},
     W \in {X \in SUBSET FileNames : Cardinality(X) <= MaxWrite}}

\* The output directory after job j's engine run wrote the files W.
EngineWrites(dir, W, j) ==
  [n \in FileNames |-> IF n \in W THEN [mtime |-> Now(dir), writer |-> j] ELSE dir[n]]

\* execute_comfyui_workflow (lines 81-103): the executor's result is returned,
\* its exception is printed and raised again.
execute_comfyui_workflow(outcome) ==
  [exc |-> outcome.exc, results |-> IF Raised(outcome.exc) THEN JNone ELSE JDict(1)]

\* Lines 205-207, and 256-260 when the engine raised.
ExecuteWorkflow(r, outcome, d) ==
  LET v == [Stage(r, "engine") EXCEPT !.written = outcome.writes, !.engine = outcome.exc]
      x == execute_comfyui_workflow(outcome)
  IN IF Raised(x.exc)
     THEN InnerCatch(Failed(v, "engine"), x.exc, d)
     ELSE [v EXCEPT !.pc = "resolve"]

\* glob of runpod_generation*{job_id}*.png: the name starts with the prefix,
\* ends in .png and holds the job id in between.
MatchTagged(name, id) ==
  /\ Len(name) >= 2
  /\ name[1] = "runpod_generation"
  /\ name[Len(name)] = ".png"
  /\ \/ Len(id) = 0
     \/ \E i \in 2..(Len(name) - 1) :
          /\ i + Len(id) - 1 <= Len(name) - 1
          /\ SubSeq(name, i, i + Len(id) - 1) = id

\* glob of *.png.
MatchPng(name) == name[Len(name)] = ".png"

RECURSIVE InsertByMtime(_, _, _)
InsertByMtime(dir, s, x) ==
  IF s = <<>> THEN <<x>>
  ELSE IF dir[Head(s)].mtime >= dir[x].mtime
       THEN <<Head(s)>> \o InsertByMtime(dir, Tail(s), x)
       ELSE <<x>> \o s

\* Mutant of SortByMtimeDesc: the list is left in the order of enumeration.
SortByMtimeDesc_Unsorted(dir, s) == s

\* list.sort(key=os.path.getmtime, reverse=True): newest first, files of equal
\* time in their original order.
RECURSIVE SortByMtimeDesc(_, _)
SortByMtimeDesc(dir, s) ==
  IF s = <<>> THEN <<>>
  ELSE InsertByMtime(dir, SortByMtimeDesc(dir, SubSeq(s, 1, Len(s) - 1)), s[Len(s)])

\* Mutant of FindImages: the batch_size slice is applied to the tagged
\* matches too.
FindImages_SliceTagged(r, dir, order) ==
  LET tagged == SelectSeq(order, LAMBDA n : MatchTagged(n, r.job_id.v))
      all_images == SortByMtimeDesc(dir, SelectSeq(order, MatchPng))
      batch_size == Get(r.params, "batch_size", JInt(1))
      found == IF tagged # <<>> THEN tagged ELSE all_images
  IN IF batch_size.t = "int"
     THEN [image_files |-> Slice(found, batch_size.v), fallback |-> tagged = <<>>,
           exc |-> NoExc]
     ELSE IF batch_size.t = "none"
     THEN [image_files |-> found, fallback |-> tagged = <<>>, exc |-> NoExc]
     ELSE [image_files |-> <<>>, fallback |-> tagged = <<>>,
           exc |-> Exc("TypeError", "slice indices must be integers")]

\* Mutant of FindImages: the fallback considers only the files that the
\* job's own engine run wrote.
FindImages_OwnFilesOnly(r, dir, order) ==
  LET tagged == SelectSeq(order, LAMBDA n : MatchTagged(n, r.job_id.v))
      all_images == SortByMtimeDesc(dir, SelectSeq(order, LAMBDA n : MatchPng(n) /\ n \in r.written))
      batch_size == Get(r.params, "batch_size", JInt(1))
  IN IF tagged # <<>>
     THEN [image_files |-> tagged, fallback |-> FALSE, exc |-> NoExc]
     ELSE IF batch_size.t = "int"
     THEN [image_files |-> Slice(all_images, batch_size.v), fallback |-> TRUE, exc |-> NoExc]
     ELSE IF batch_size.t = "none"
     THEN [image_files |-> all_images, fallback |-> TRUE, exc |-> NoExc]
     ELSE [image_files |-> <<>>, fallback |-> TRUE,
           exc |-> Exc("TypeError", "slice indices must be integers")]

\* Lines 216-227: the files of the job, given the order in which the
\* directory is enumerated.  exc is the TypeError of a slice bound that is no
\* integer.
FindImages(r, dir, order) ==
  LET tagged == SelectSeq(order, LAMBDA n : MatchTagged(n, r.job_id.v))
      all_images == SortByMtimeDesc(dir, SelectSeq(order, MatchPng))
      batch_size == Get(r.params, "batch_size", JInt(1))
  IN IF tagged # <<>>
     THEN [image_files |-> tagged, fallback |-> FALSE, exc |-> NoExc]
     ELSE IF batch_size.t = "int"
     THEN [image_files |-> Slice(all_images, batch_size.v), fallback |-> TRUE, exc |-> NoExc]
     ELSE IF batch_size.t = "none"
     THEN [image_files |-> all_images, fallback |-> TRUE, exc |-> NoExc]
     ELSE [image_files |-> <<>>, fallback |-> TRUE,
           exc |-> Exc("TypeError", "slice indices must be integers")]

\* Mutant of ResolveOutput: the check "if image_files" is missing.
ResolveOutput_NoEmptyCheck(r, dir, order, d) ==
  LET v == Stage(r, "resolve")
      f == FindImages(v, dir, order)
      w == [v EXCEPT !.image_files = f.image_files, !.fallback = f.fallback,
                     !.listing = order, !.seen = dir]
  IN IF Raised(f.exc)
     THEN InnerCatch(Failed(w, "resolve"), f.exc, d)
     ELSE [w EXCEPT !.pc = "encode"]

\* Lines 209-229 and 250-254: output resolution and the no-images failure.
ResolveOutput(r, dir, order, d) ==
  LET v == Stage(r, "resolve")
      f == FindImages(v, dir, order)
      w == [v EXCEPT !.image_files = f.image_files, !.fallback = f.fallback,
                     !.listing = order, !.seen = dir]
  IN IF Raised(f.exc)
     THEN InnerCatch(Failed(w, "resolve"), f.exc, d)
     ELSE IF w.image_files = <<>>
     THEN FailInner(Failed(w, "resolve"), <<"No images generated">>, d)
     ELSE [w EXCEPT !.pc = "encode"]

\* base64.b64encode(img_file.read()).decode('utf-8') of one file.
Base64(name) == <<"base64">> \o name

\* Mutant of convert_images_to_base64: the loop ends at the first file that
\* cannot be read.
convert_images_to_base64_FailFast(image_paths, unreadable) ==
  LET bad == {i \in DOMAIN image_paths : image_paths[i] \in unreadable}
      stop == IF bad = {} THEN Len(image_paths) + 1
              ELSE CHOOSE i \in bad : \A k \in bad : i <= k
  IN [i \in 1..(stop - 1) |-> Base64(image_paths[i])]

\* convert_images_to_base64 (lines 105-118): a file that cannot be read is
\* printed and skipped.
convert_images_to_base64(image_paths, unreadable) ==
  LET readable == SelectSeq(image_paths, LAMBDA n : n \notin unreadable)
  IN [i \in 1..Len(readable) |-> Base64(readable[i])]

\* Lines 230-248.
EncodeAndComplete(r, unreadable, d) ==
  LET v == [Stage(r, "encode") EXCEPT
              !.unreadable = {n \in unreadable : \E i \in DOMAIN r.image_files : r.image_files[i] = n}]
      base64_images == convert_images_to_base64(v.image_files, unreadable)
      output == [t |-> "dict", n |-> 5, images |-> base64_images, job_id |-> v.job_id,
                 prompt |-> v.params.prompt, image_count |-> Len(base64_images),
                 generation_params |-> v.params]
      s == send_webhook(v, "COMPLETED", output, JNone, d)
  IN IF Raised(s.exc) THEN InnerCatch(Failed(s.run, "encode"), s.exc, d)
     ELSE Return(s.run, output)

(* ------------------------------ actions -------------------------------- *)

\* The platform calls handler(event).
Invoke(j) ==
  /\ inv[j].pc = "idle"
  /\ \E ev \in Events, d \in Deliveries : inv' = [inv EXCEPT ![j] = HandlerStart(@, ev, d)]
  /\ UNCHANGED outdir

Setup(j) ==
  /\ inv[j].pc = "setup"
  /\ \E ok \in BOOLEAN, d \in Deliveries : inv' = [inv EXCEPT ![j] = InitComfyUI(@, ok, d)]
  /\ UNCHANGED outdir

Models(j) ==
  /\ inv[j].pc = "models"
  /\ \E exists \in SUBSET ModelTypes, d \in Deliveries :
       inv' = [inv EXCEPT ![j] = CheckModels(@, exists, d)]
  /\ UNCHANGED outdir

Execute(j) ==
  /\ inv[j].pc = "execute"
  /\ \E outcome \in EngineOutcomes, d \in Deliveries :
       /\ inv' = [inv EXCEPT ![j] = ExecuteWorkflow(@, outcome, d)]
       /\ outdir' = EngineWrites(outdir, outcome.writes, j)

Resolve(j) ==
  /\ inv[j].pc = "resolve"
  /\ \E order \in Orders(Listing(outdir)), d \in Deliveries :
       inv' = [inv EXCEPT ![j] = ResolveOutput(@, outdir, order, d)]
  /\ UNCHANGED outdir

Encode(j) ==
  /\ inv[j].pc = "encode"
  /\ \E unreadable \in SUBSET {inv[j].image_files[i] : i \in DOMAIN inv[j].image_files},
        d \in Deliveries :
       inv' = [inv EXCEPT ![j] = EncodeAndComplete(@, unreadable, d)]
  /\ UNCHANGED outdir

\* One invocation, in an output directory that earlier jobs have used.
Init ==
  /\ inv = [j \in {1} |-> IdleRun]
  /\ outdir \in InitDirs

Next ==
  \/ Invoke(1)
  \/ Setup(1)
  \/ Models(1)
  \/ Execute(1)
  \/ Resolve(1)
  \/ Encode(1)

Spec == Init /\ [][Next]_vars

(* --------------------------- claim vocabulary -------------------------- *)

Runs == {inv[j] : j \in DOMAIN inv}

Done(r) == r.pc = "done"

Terminal == {"COMPLETED", "FAILED"}

\* The statuses of the payloads handed to requests.post, in order.
PostStatuses(r) == [i \in DOMAIN r.posts |-> r.posts[i].status]

CountOf(seq, S) == Cardinality({i \in DOMAIN seq : seq[i] \in S})

\* The request carries a webhook URL that send_webhook will use.
CallbackSet(r) ==
  /\ r.event.t = "dict"
  /\ r.event.input.t = "dict"
  /\ Truthy(r.event.input.webhook_url)

\* The request lacks a workflow or a prompt: workflow missing or empty, or no
\* non-empty params.prompt (params missing, null, no object, or without one).
InvalidRequest(ev) ==
  LET i == Get(ev, "input", EmptyInput)
  IN \/ ev.t # "dict"
     \/ i.t # "dict"
     \/ ~Truthy(Get(i, "workflow", JDict(0)))
     \/ LET p == Get(i, "params", EmptyParams)
        IN p.t # "dict" \/ ~Truthy(Get(p, "prompt", JNone))

IsErrorResult(res) == DOMAIN res = {"t", "n", "error"}

IsOutputResult(res) ==
  DOMAIN res = {"t", "n", "images", "job_id", "prompt", "image_count", "generation_params"}

(* -------------------------------- C1 ----------------------------------- *)

\* C1: by the time handler returns, with a webhook URL set, exactly one
\* terminal notification (COMPLETED or FAILED) has been attempted.
\* Violated: the handler's last except clause returns the error without
\* calling send_webhook.
C1_ExactlyOneTerminal ==
  \A r \in Runs :
    (Done(r) /\ CallbackSet(r)) => CountOf(PostStatuses(r), Terminal) = 1

(* -------------------------------- C2 ----------------------------------- *)

\* C2: every error return was preceded by a FAILED notification attempt that
\* carries the message returned.
C2_ErrorReturnNotified ==
  \A r \in Runs :
    (Done(r) /\ IsErrorResult(r.result) /\ CallbackSet(r)) =>
      /\ r.posts # <<>>
      /\ r.posts[Len(r.posts)].status = "FAILED"
      /\ r.posts[Len(r.posts)].error = JStr(r.result.error)

(* -------------------------------- C3 ----------------------------------- *)

\* C3: a request without workflow or without params.prompt returns an error,
\* with exactly one FAILED attempt when a webhook URL is set and no
\* COMPLETED and no IN_PROGRESS attempt.
C3_InvalidRequestFails ==
  \A r \in Runs :
    (Done(r) /\ InvalidRequest(r.event)) =>
      /\ IsErrorResult(r.result)
      /\ CallbackSet(r) => CountOf(PostStatuses(r), {"FAILED"}) = 1
      /\ CountOf(r.calls, {"COMPLETED", "IN_PROGRESS"}) = 0

(* -------------------------------- C4 ----------------------------------- *)

\* C4: IN_PROGRESS is attempted exactly once, first, in every invocation that
\* passed validation and never in one that failed it; it precedes the
\* terminal notification; a successful run attempts exactly IN_PROGRESS and
\* then COMPLETED.
C4_InProgressOnceThenTerminal ==
  \A r \in Runs :
    /\ (r.pc # "idle" /\ ~InvalidRequest(r.event)) =>
         /\ CountOf(r.calls, {"IN_PROGRESS"}) = 1
         /\ r.calls[1] = "IN_PROGRESS"
         /\ CallbackSet(r) =>
              /\ CountOf(PostStatuses(r), {"IN_PROGRESS"}) = 1
              /\ r.posts[1].status = "IN_PROGRESS"
    /\ (r.pc # "idle" /\ InvalidRequest(r.event)) =>
         CountOf(r.calls, {"IN_PROGRESS"}) = 0
    /\ \A i, k \in DOMAIN r.calls :
         (r.calls[i] = "IN_PROGRESS" /\ r.calls[k] \in Terminal) => i < k
    /\ (Done(r) /\ IsOutputResult(r.result)) =>
         /\ r.calls = <<"IN_PROGRESS", "COMPLETED">>
         /\ PostStatuses(r) = IF CallbackSet(r) THEN r.calls ELSE <<>>

\* A successful run with a webhook URL: both notifications were posted.
C4_Witness ==
  \E r \in Runs :
    /\ Done(r)
    /\ IsOutputResult(r.result)
    /\ PostStatuses(r) = <<"IN_PROGRESS", "COMPLETED">>

(* -------------------------------- C5 ----------------------------------- *)

IsMessage(m) == Len(m) >= 1 /\ \A i \in DOMAIN m : m[i] \in STRING

\* C5: no exception leaves handler, and what it returns is {error: string}
\* or {images, job_id, prompt, image_count, generation_params}.
C5_WellFormedResult ==
  \A r \in Runs :
    /\ ~Raised(r.escaped)
    /\ Done(r) =>
         \/ IsErrorResult(r.result) /\ IsMessage(r.result.error)
         \/ IsOutputResult(r.result)
    /\ ~Done(r) => r.result = JAbsent

\* An exception of malformed input returned as an error: params is null.
C5_Witness ==
  \E r \in Runs :
    /\ Done(r)
    /\ r.event.t = "dict"
    /\ r.event.input.t = "dict"
    /\ r.event.input.params.t = "none"
    /\ r.result = ErrorResult(<<"Handler error: ", "NoneType">>)

(* -------------------------------- C7 ----------------------------------- *)

InStages(r, name) == \E i \in DOMAIN r.stages : r.stages[i] = name

\* C7: the engine is never invoked in an invocation where a required model
\* file is missing: all four are checked before execution, and a missing one
\* ends the job in FAILED without execution.
C7_NoEngineWithMissingModel ==
  \A r \in Runs :
    /\ InStages(r, "engine") =>
         /\ r.checked = ModelTypes
         /\ ModelTypes \subseteq r.exists
    /\ (InStages(r, "models") /\ ~(ModelTypes \subseteq r.exists)) =>
         /\ Done(r)
         /\ r.checked = ModelTypes
         /\ ~InStages(r, "engine")
         /\ r.written = {}
         /\ IsErrorResult(r.result)
         /\ r.calls = <<"IN_PROGRESS", "FAILED">>

\* Only the last required model is missing, and the job ended in FAILED.
C7_Witness ==
  \E r \in Runs :
    /\ Done(r)
    /\ r.exists = ModelTypes \ {"clip2"}
    /\ PostStatuses(r) = <<"IN_PROGRESS", "FAILED">>
    /\ ~InStages(r, "engine")

(* -------------------------------- C8 ----------------------------------- *)

\* C8: when N required model files are missing, the resulting error lists
\* all N missing entries.  Violated: validate_models prints the list and
\* returns False; the error handler returns is a fixed message.
C8_ErrorListsAllMissing ==
  \A r \in Runs :
    (Done(r) /\ r.failed = "models") =>
      \A m \in ModelTypes \ r.exists :
        \E i \in DOMAIN r.result.error : r.result.error[i] = m

(* -------------------------------- C9 ----------------------------------- *)

StageOrder == <<"validate", "notify", "setup", "models", "engine", "resolve", "encode">>

\* C9: a stage's failure ends the invocation, so no later stage runs; the
\* stages run in the pipeline's order; COMPLETED and the success result come
\* only after every stage ran and the resolution found a file.
C9_StagesShortCircuit ==
  \A r \in Runs :
    /\ Len(r.stages) <= Len(StageOrder)
    /\ \A i \in DOMAIN r.stages : r.stages[i] = StageOrder[i]
    /\ r.failed \notin {"", "input"} =>
         /\ Done(r)
         /\ r.stages[Len(r.stages)] = IF r.failed = "print" THEN "models" ELSE r.failed
    /\ r.failed \in {"validate", "setup", "models"} =>
         ~(InStages(r, "engine") \/ InStages(r, "resolve") \/ InStages(r, "encode"))
    /\ r.failed = "engine" => ~(InStages(r, "resolve") \/ InStages(r, "encode"))
    /\ (Done(r) /\ IsErrorResult(r.result)) => r.failed # ""
    /\ (IsOutputResult(r.result) \/ CountOf(r.calls, {"COMPLETED"}) > 0) =>
         /\ Done(r)
         /\ r.stages = StageOrder
         /\ r.failed = ""
         /\ ModelTypes \subseteq r.exists
         /\ r.image_files # <<>>

\* The engine raised after validation, initialization and the model check.
C9_Witness ==
  \E r \in Runs :
    /\ Done(r)
    /\ r.failed = "engine"
    /\ r.stages = SubSeq(StageOrder, 1, 5)
    /\ r.written # {}

(* -------------------------------- C10 ---------------------------------- *)

\* The files of the enumerated directory that match the job's pattern.
TaggedIn(r) ==
  {r.listing[i] : i \in {k \in DOMAIN r.listing : MatchTagged(r.listing[k], r.job_id.v)}}

Range(seq) == {seq[i] : i \in DOMAIN seq}

\* C10: when the directory holds a .png file matching the job's pattern, the
\* resolver returns all matching files and only those, once each; the
\* fallback is not taken and batch_size does not limit the result.
C10_TaggedPath ==
  \A r \in Runs :
    (InStages(r, "resolve") /\ TaggedIn(r) # {}) =>
      /\ Range(r.image_files) = TaggedIn(r)
      /\ Len(r.image_files) = Cardinality(TaggedIn(r))
      /\ ~r.fallback
      /\ r.failed # "resolve"

\* Two tagged files and an untagged one, batch_size 1 by default: both tagged
\* files are returned.
C10_Witness ==
  \E r \in Runs :
    /\ Done(r)
    /\ IsOutputResult(r.result)
    /\ r.job_id = JStr(<<"a">>)
    /\ r.params.batch_size = JAbsent
    /\ Range(r.listing) = {NameTaggedA, NameTaggedAB, NamePlain}
    /\ Range(r.image_files) = {NameTaggedA, NameTaggedAB}
    /\ r.result.image_count = 2

(* ------------------- two invocations of one request -------------------- *)

\* The event with its webhook_url replaced.
WithUrl(ev, u) ==
  IF ev.t = "dict" /\ ev.input.t = "dict"
  THEN [ev EXCEPT !.input = InputDict(@.job_id, @.workflow, @.params, u)]
  ELSE ev

Pick(j, x, y) == IF j = 1 THEN x ELSE y

BothAt(pc) == inv[1].pc = pc /\ inv[2].pc = pc

\* Invocations 1 and 2 get the same request, but for the webhook URL, and
\* meet the same environment at every step: the same imports, model files,
\* engine outcome, directory and unreadable files.  Each of their deliveries
\* ends in its own way.
PairInvoke ==
  /\ BothAt("idle")
  /\ \E ev \in Events, u \in Urls, d1, d2 \in Deliveries :
       inv' = [j \in {1, 2} |-> HandlerStart(inv[j], Pick(j, ev, WithUrl(ev, u)), Pick(j, d1, d2))]
  /\ UNCHANGED outdir

PairSetup ==
  /\ BothAt("setup")
  /\ \E ok \in BOOLEAN, d1, d2 \in Deliveries :
       inv' = [j \in {1, 2} |-> InitComfyUI(inv[j], ok, Pick(j, d1, d2))]
  /\ UNCHANGED outdir

PairModels ==
  /\ BothAt("models")
  /\ \E exists \in SUBSET ModelTypes, d1, d2 \in Deliveries :
       inv' = [j \in {1, 2} |-> CheckModels(inv[j], exists, Pick(j, d1, d2))]
  /\ UNCHANGED outdir

PairExecute ==
  /\ BothAt("execute")
  /\ \E outcome \in EngineOutcomes, d1, d2 \in Deliveries :
       /\ inv' = [j \in {1, 2} |-> ExecuteWorkflow(inv[j], outcome, Pick(j, d1, d2))]
       /\ outdir' = EngineWrites(outdir, outcome.writes, 1)

PairResolve ==
  /\ BothAt("resolve")
  /\ \E order \in Orders(Listing(outdir)), d1, d2 \in Deliveries :
       inv' = [j \in {1, 2} |-> ResolveOutput(inv[j], outdir, order, Pick(j, d1, d2))]
  /\ UNCHANGED outdir

PairEncode ==
  /\ BothAt("encode")
  /\ \E unreadable \in SUBSET Listing(outdir), d1, d2 \in Deliveries :
       inv' = [j \in {1, 2} |-> EncodeAndComplete(inv[j], unreadable, Pick(j, d1, d2))]
  /\ UNCHANGED outdir

\* Two invocations, in a fresh output directory.
InitPair ==
  /\ inv = [j \in {1, 2} |-> IdleRun]
  /\ outdir = [n \in FileNames |-> NoFile]

NextPair ==
  \/ PairInvoke
  \/ PairSetup
  \/ PairModels
  \/ PairExecute
  \/ PairResolve
  \/ PairEncode

SpecPair == InitPair /\ [][NextPair]_vars

(* -------------------------------- C6 ----------------------------------- *)

\* C6: two invocations of the same request in the same environment, which
\* differ only in the webhook URL and in how each delivery ends, are at the
\* same place, ran the same stages and return the same result.
C6_OutcomeIndependentOfDelivery ==
  /\ inv[1].pc = inv[2].pc
  /\ inv[1].stages = inv[2].stages
  /\ inv[1].failed = inv[2].failed
  /\ inv[1].image_files = inv[2].image_files
  /\ inv[1].result = inv[2].result
  /\ ~Raised(inv[1].escaped) /\ ~Raised(inv[2].escaped)

\* Both returned the images; the first had a URL and both of its deliveries
\* failed, the second had none.
C6_Witness ==
  /\ Done(inv[1]) /\ Done(inv[2])
  /\ IsOutputResult(inv[1].result)
  /\ Len(inv[1].posts) = 2
  /\ \A i \in DOMAIN inv[1].posts : ~inv[1].posts[i].delivered
  /\ ~CallbackSet(inv[2])
  /\ inv[2].posts = <<>>

(* -------------------------------- C11 ---------------------------------- *)

\* params.get('batch_size', 1) of a run whose params are a dict.
BatchSizeOf(r) == Get(r.params, "batch_size", JInt(1))

\* The .png files of the directory as the run enumerated it.
PngsSeen(r) == {n \in Range(r.listing) : MatchPng(n)}

Min(a, b) == IF a <= b THEN a ELSE b

ReadableOf(r) == SelectSeq(r.image_files, LAMBDA n : n \notin r.unreadable)

\* C13: once the encoder ran, the job is COMPLETED with an output result
\* whose images are the encodings of the readable files, one each, in the
\* order of the resolved paths, the unreadable ones skipped; image_count is
\* the number of images, also when no file could be read.
C13_EncodingIsolatesFailures ==
  \A r \in Runs :
    InStages(r, "encode") =>
      /\ Done(r)
      /\ IsOutputResult(r.result)
      /\ r.failed = ""
      /\ r.calls[Len(r.calls)] = "COMPLETED"
      /\ Len(r.result.images) = Len(ReadableOf(r))
      /\ \A i \in DOMAIN r.result.images : r.result.images[i] = Base64(ReadableOf(r)[i])
      /\ r.result.image_count = Len(r.result.images)
      /\ \A i \in DOMAIN r.posts :
           r.posts[i].status = "COMPLETED" => r.posts[i].output = r.result

\* Two resolved files, the first unreadable: the second alone is encoded and
\* the job is COMPLETED with image_count 1.
C13_Witness ==
  \E r \in Runs :
    /\ Done(r)
    /\ IsOutputResult(r.result)
    /\ Len(r.image_files) = 2
    /\ r.unreadable = {r.image_files[1]}
    /\ r.result.images = <<Base64(r.image_files[2])>>
    /\ r.result.image_count = 1
    /\ r.posts # <<>>
    /\ r.posts[Len(r.posts)].status = "COMPLETED"

(* -------------------------------- C14 ---------------------------------- *)

\* C14: in every payload built by send_webhook, IN_PROGRESS carries neither
\* output nor error, COMPLETED carries an output and no error, FAILED carries
\* a non-empty error string and no output.
C14_PayloadShape ==
  \A r \in Runs : \A i \in DOMAIN r.posts :
    LET p == r.posts[i]
    IN /\ p.status \in {"IN_PROGRESS", "COMPLETED", "FAILED"}
       /\ p.status = "IN_PROGRESS" => (p.output = JAbsent /\ p.error = JAbsent)
       /\ p.status = "COMPLETED" => (IsOutputResult(p.output) /\ p.error = JAbsent)
       /\ p.status = "FAILED" =>
            (p.output = JAbsent /\ p.error.t = "str" /\ Len(p.error.v) > 0)

\* The engine raised an exception with an empty message: the FAILED payload
\* after IN_PROGRESS carries the error and no output.
C14_Witness ==
  \E r \in Runs :
    /\ Done(r)
    /\ PostStatuses(r) = <<"IN_PROGRESS", "FAILED">>
    /\ r.posts[1].output = JAbsent
    /\ r.posts[1].error = JAbsent
    /\ r.posts[2].error = JStr(<<"Workflow execution failed: ", "">>)
    /\ r.posts[2].output = JAbsent

(* -------------------------------- C15 ---------------------------------- *)

\* The result is the error of the handler of line 256.
IsWorkflowError(res) ==
  /\ IsErrorResult(res)
  /\ res.error[1] = "Workflow execution failed: "

\* C15: an exception of the engine ends the job in FAILED with
\* "Workflow execution failed: " followed by the engine's message; no other
\* failure is reported with that error; when the engine returns, the job goes
\* on to output resolution.
C15_EngineFailuresOnly ==
  \A r \in Runs :
    /\ Raised(r.engine) =>
         /\ Done(r)
         /\ r.result = ErrorResult(<<"Workflow execution failed: ", r.engine.msg>>)
         /\ r.calls[Len(r.calls)] = "FAILED"
    /\ (Done(r) /\ IsWorkflowError(r.result)) => Raised(r.engine)
    /\ (InStages(r, "engine") /\ ~Raised(r.engine)) =>
         (r.pc = "resolve" \/ InStages(r, "resolve"))

(* -------------------------------- C16 ---------------------------------- *)

\* C16: in an invocation whose request has no webhook URL (absent or empty),
\* requests.post is never called and no exception leaves handler, whichever
\* way the invocation ends.
C16_NoUrlNoPost ==
  \A r \in Runs :
    ~CallbackSet(r) =>
      /\ r.posts = <<>>
      /\ ~Raised(r.escaped)
      /\ Done(r) => (IsErrorResult(r.result) \/ IsOutputResult(r.result))

\* A job without a webhook URL that went through both send_webhook calls of
\* the success path and returned its images.
C16_Witness ==
  \E r \in Runs :
    /\ Done(r)
    /\ r.event.t = "dict"
    /\ r.event.input.t = "dict"
    /\ r.event.input.webhook_url = JAbsent
    /\ IsOutputResult(r.result)
    /\ r.calls = <<"IN_PROGRESS", "COMPLETED">>
    /\ r.posts = <<>>

(* ---------------- two invocations running concurrently ----------------- *)

\* The requests of the concurrent runs: valid, without webhook URL and
\* batch_size, the job identifier "a" or "ab".
ConcEvents ==
  {[t |-> "dict", n |-> 1,
    input |-> InputDict(j, JDict(1), ParamsDict(JStr(<<"p">>), JAbsent), JAbsent)] :
     j \in {JStr(<<"a">>), JStr(<<"a", "b">>)}}

ConcInvoke(j) ==
  /\ inv[j].pc = "idle"
  /\ \E ev \in ConcEvents : inv' = [inv EXCEPT ![j] = HandlerStart(@, ev, "ok")]
  /\ UNCHANGED outdir

\* ComfyUI imports and the four model files exist in this deployment.
ConcSetup(j) ==
  /\ inv[j].pc = "setup"
  /\ inv' = [inv EXCEPT ![j] = InitComfyUI(@, TRUE, "ok")]
  /\ UNCHANGED outdir

ConcModels(j) ==
  /\ inv[j].pc = "models"
  /\ inv' = [inv EXCEPT ![j] = CheckModels(@, ModelTypes, "ok")]
  /\ UNCHANGED outdir

\* The engine of job j returns after writing its files into the directory
\* the two jobs share.
ConcExecute(j) ==
  /\ inv[j].pc = "execute"
  /\ \E outcome \in {o \in EngineOutcomes : ~Raised(o.exc)} :
       /\ inv' = [inv EXCEPT ![j] = ExecuteWorkflow(@, outcome, "ok")]
       /\ outdir' = EngineWrites(outdir, outcome.writes, j)

ConcResolve(j) ==
  /\ inv[j].pc = "resolve"
  /\ \E order \in Orders(Listing(outdir)) :
       inv' = [inv EXCEPT ![j] = ResolveOutput(@, outdir, order, "ok")]
  /\ UNCHANGED outdir

ConcEncode(j) ==
  /\ inv[j].pc = "encode"
  /\ inv' = [inv EXCEPT ![j] = EncodeAndComplete(@, {}, "ok")]
  /\ UNCHANGED outdir

\* Two handlers started on one worker, in a fresh output directory.
InitConc ==
  /\ inv = [j \in {1, 2} |-> IdleRun]
  /\ outdir = [n \in FileNames |-> NoFile]

NextConc ==
  \/ ConcInvoke(1) \/ ConcInvoke(2)
  \/ ConcSetup(1) \/ ConcSetup(2)
  \/ ConcModels(1) \/ ConcModels(2)
  \/ ConcExecute(1) \/ ConcExecute(2)
  \/ ConcResolve(1) \/ ConcResolve(2)
  \/ ConcEncode(1) \/ ConcEncode(2)

SpecConc == InitConc /\ [][NextConc]_vars

(* -------------------------------- C17 ---------------------------------- *)

\* The files of a run's result that another job's engine wrote.
ForeignIn(j) ==
  {n \in Range(inv[j].image_files) : inv[j].seen[n].writer # j}

\* C17: a job that completes through the fallback returns the newest .png
\* file of the directory it enumerated, whichever job wrote it.
C17_FallbackIgnoresWriter ==
  \A j \in DOMAIN inv :
    LET r == inv[j]
    IN (Done(r) /\ IsOutputResult(r.result) /\ r.fallback) =>
         \A n \in PngsSeen(r) :
           (\A m \in PngsSeen(r) \ {n} : r.seen[n].mtime > r.seen[m].mtime) =>
             n \in Range(r.image_files)

\* Job 1 wrote a file that is not tagged with its identifier, job 2 wrote
\* its file later, and job 1 completed through the fallback with the file of
\* job 2 in its result.
C17_Witness ==
  /\ Done(inv[1])
  /\ IsOutputResult(inv[1].result)
  /\ inv[1].fallback
  /\ inv[1].written # {}
  /\ \A n \in inv[1].written : ~MatchTagged(n, inv[1].job_id.v)
  /\ inv[2].written # {}
  /\ ForeignIn(1) # {}
  /\ \A n \in ForeignIn(1) : inv[1].seen[n].writer = 2
  /\ inv[1].result.image_count >= 1

(* -------------------------------- C18 ---------------------------------- *)

\* C18: one invocation at a time, in a directory that holds what earlier
\* jobs left behind: every file of a COMPLETED result was written by the
\* invocation's own engine run, and a job whose engine wrote no file does not
\* complete.
C18_OwnFilesOnly ==
  \A j \in DOMAIN inv :
    LET r == inv[j]
    IN (Done(r) /\ IsOutputResult(r.result)) =>
         /\ r.written # {}
         /\ \A n \in Range(r.image_files) : n \in r.written /\ r.seen[n].writer = j

(* -------------------------------- C19 ---------------------------------- *)

\* C19: when the engine returned and the directory holds a .png file, the
\* job does not fail with "No images generated", and output resolution, unless
\* it raised, found a file: for every batch_size of the request.
C19_NoArtifactsOnlyWhenEmpty ==
  \A r \in Runs :
    (InStages(r, "resolve") /\ PngsSeen(r) # {}) =>
      /\ r.result # ErrorResult(<<"No images generated">>)
      /\ (r.image_files # <<>> \/ IsWorkflowError(r.result))

(* -------------------------------- C20 ---------------------------------- *)

\* The identifier a file name carries between the prefix and the extension.
TagOf(name) == SubSeq(name, 2, Len(name) - 1)

\* The engine run of job j wrote files, all of them tagged with its identifier.
OutputTagged(j) ==
  /\ inv[j].written # {}
  /\ \A n \in inv[j].written :
       n[1] = "runpod_generation" /\ MatchPng(n) /\ TagOf(n) = inv[j].job_id.v

\* C20: of two jobs with different identifiers whose outputs are tagged, the
\* one that resolves its output through the tagged match gets no file tagged
\* with the identifier of the other.
C20_TaggedPathOwnTag ==
  \A j, k \in DOMAIN inv :
    (/\ j # k
     /\ OutputTagged(j)
     /\ OutputTagged(k)
     /\ inv[j].job_id # inv[k].job_id
     /\ InStages(inv[j], "resolve")
     /\ ~inv[j].fallback) =>
      \A n \in Range(inv[j].image_files) : TagOf(n) # inv[k].job_id.v

====
